---------------------------- MODULE Spec2Model ----------------------------
(***************************************************************************)
(* A model of the VSAC value-set converters:                              *)
(*   value_set_vsac_to_json/main.py          get_csv, vsac_to_vsac,        *)
(*                                            vsac_to_fhir, run            *)
(*   value_set_vsac_json_to_n3c_json/vsac_api.py   get_service_ticket      *)
(*                                                                         *)
(* A Python str is a sequence of tokens.  A token is a piece of text that  *)
(* no operation of the program cuts: one character of the delimiters       *)
(* ')' ',' '|', one whole label such as '(Clinical Focus: ' (a label holds  *)
(* no delimiter character), one word of free text, or the replacement      *)
(* field '{}' of str.format.  Concatenation of strs is \o.                  *)
(***************************************************************************)
EXTENDS Integers, Sequences, FiniteSets, TLC

VARIABLES
    value_sets,     \* the list of raw records the operation works on
    pc,             \* position of the running operation
    err,            \* "" or the name of the exception that ended it
    now,            \* the reading of datetime.now() the operation used
    df,             \* get_csv: the rows of the returned table
    table_file,     \* get_csv: the list_of_codes.tsv written, or NoFile
    d_list,         \* the converted JSON artifacts, in order of conversion
    heap,           \* the nested (shared, mutable) objects of FHIR_JSON_TEMPLATE
    snapshots,      \* json.dumps of each artifact at the moment it was returned
    artefact,       \* run(): argument
    format,         \* run(): argument
    use_cache_arg,  \* run(): argument use_cache as passed
    use_cache,      \* run(): the local use_cache, which the code reassigns
    pickle_file,    \* CACHE_DIR/value_sets.pickle: NoFile or its content
    cache_at_start, \* whether the pickle file was there when the run started
    calls,          \* run(): calls made to the collaborators, per run
    json_files,     \* run(): the <name>.json files written, in order
    last_fetched,   \* the record list of the latest successful fetch
    runs,           \* number of runs started
    responses       \* get_service_ticket: the responses received, with what was returned

vars == <<value_sets, pc, err, now, df, table_file, d_list, heap, snapshots,
          artefact, format, use_cache_arg, use_cache, pickle_file,
          cache_at_start, calls, json_files, last_fetched, runs, responses>>

---------------------------------------------------------------------------
(* Bounds of the model *)

\* longest record list handed to get_csv or fetched by run
MaxRecords == 2
\* largest number of concepts in one record list
MaxConcepts == 4
\* number of runs of the program in a row
MaxRuns == 2
\* number of vsac_to_fhir / get_service_ticket calls in a row
MaxCalls == 3

---------------------------------------------------------------------------
(* Python str and list operations *)

StartsWith(s, sep) == Len(s) >= Len(sep) /\ SubSeq(s, 1, Len(sep)) = sep

RECURSIVE SplitAcc(_, _, _)
SplitAcc(s, sep, cur) ==
    IF s = <<>> THEN <<cur>>
    ELSE IF StartsWith(s, sep)
         THEN <<cur>> \o SplitAcc(SubSeq(s, Len(sep) + 1, Len(s)), sep, <<>>)
         ELSE SplitAcc(Tail(s), sep, Append(cur, Head(s)))

\* s.split(sep): the pieces of s between the non-overlapping occurrences of
\* sep, found left to right; always at least one piece
Split(s, sep) == SplitAcc(s, sep, <<>>)

RECURSIVE Join(_, _)
\* sep.join(parts)
Join(parts, sep) ==
    IF parts = <<>> THEN <<>>
    ELSE IF Len(parts) = 1 THEN parts[1]
    ELSE parts[1] \o sep \o Join(Tail(parts), sep)

\* lst[0:2]
Slice02(lst) == SubSeq(lst, 1, IF Len(lst) < 2 THEN Len(lst) ELSE 2)

\* str(lst) of a list of strs: "['a', 'b']"
StrOfList(lst) ==
    <<"[">> \o Join([i \in 1..Len(lst) |-> <<"'">> \o lst[i] \o <<"'">>], <<", ">>)
            \o <<"]">>

---------------------------------------------------------------------------
(* Literals of the program *)

\* the clause delimiter '),' of the purpose text
PurposeDelim == <<")", ",">>
\* code_delimiter default '|'
CodeDelim == <<"|">>
\* ','.join of the code-system names
Comma == <<",">>

LabelCF == "(Clinical Focus: "
LabelIC == "(Inclusion Criteria: "
LabelDES == "(Data Element Scope: "
LabelEC == "(Exclusion Criteria: "

NoFile == [exists |-> FALSE]

---------------------------------------------------------------------------
(* Raw value-set records *)

\* '(Clinical Focus: asthma),(Inclusion Criteria: snomed),
\*  (Data Element Scope: condition),(Exclusion Criteria: none)'
PurposeFull ==
    <<LabelCF, "asthma">> \o PurposeDelim \o <<LabelIC, "snomed">> \o PurposeDelim
    \o <<LabelDES, "condition">> \o PurposeDelim \o <<LabelEC, "none", ")">>

\* a purpose text of two clauses only
PurposeShort ==
    <<LabelCF, "asthma">> \o PurposeDelim \o <<LabelIC, "snomed", ")">>

Names == <<"Asthma SCT", "Asthma ICD10CM", "Asthma Rx", "Asthma LOINC">>
OIDs == <<"2.16.1", "2.16.2", "2.16.3", "2.16.4">>
CodeSystemNames == {"SNOMEDCT", "ICD10CM"}
CodeNames == <<"123", "456", "789", "012", "345">>

\* the concept lists: the k-th concept has the k-th code and any code system
ConceptLists ==
    UNION { { [k \in 1..n |-> [code |-> <<CodeNames[k]>>, codeSystemName |-> <<f[k]>>]]
              : f \in [1..n -> CodeSystemNames] } : n \in 0..MaxConcepts }

\* a record as xmltodict delivers it; the i-th record of a list carries the
\* i-th OID and display name (OIDs identify value sets)
ValueSet(i, purpose, concepts) ==
    [displayName |-> <<Names[i]>>, ID |-> <<OIDs[i]>>, Purpose |-> purpose,
     Concept |-> concepts, Source |-> <<"NLM">>, Type |-> <<"Extensional">>,
     version |-> <<"20210220">>, RevisionDate |-> <<"2021-02-20">>]

\* a purpose text of five clauses: the four, then a note
PurposeFive ==
    SubSeq(PurposeFull, 1, Len(PurposeFull) - 1) \o PurposeDelim
    \o <<"(VSAC Note: ", "reviewed", ")">>

CsvPurposes == {PurposeFull, PurposeShort, PurposeFive}

RECURSIVE TotalLen(_)
\* number of concepts in all the lists of cs together
TotalLen(cs) == IF cs = <<>> THEN 0 ELSE Len(Head(cs)) + TotalLen(Tail(cs))

RECURSIVE ConceptListsOf(_, _)
\* the ways to give each of n records a concept list, with at most max
\* concepts in all
ConceptListsOf(n, max) ==
    IF n = 0 THEN {<<>>}
    ELSE UNION { { Append(cs, c) : c \in {x \in ConceptLists : Len(x) + TotalLen(cs) <= max} }
                 : cs \in ConceptListsOf(n - 1, max) }

\* readings of datetime.now(), with a non-zero microsecond
Clock == {[Y |-> "2021", m |-> "02", d |-> "20", hms |-> "23:59:59",
           us |-> <<"1", "2", "3", "4", "5", "6">>],
          [Y |-> "2021", m |-> "02", d |-> "21", hms |-> "00:00:01",
           us |-> <<"6", "5", "4", "3", "2", "1">>]}

\* str(datetime.now()): 'YYYY-MM-DD HH:MM:SS.ffffff', the fraction one token
\* per character
StrOfTime(t) == <<t.Y, "-", t.m, "-", t.d, " ", t.hms, ".">> \o t.us

\* s[0:-7]
DropLast7(s) == SubSeq(s, 1, Len(s) - 7)

\* strftime with the separator given: '%Y.%m.%d', '%Y/%m/%d'
StrfTime(t, sep) == <<t.Y, sep, t.m, sep, t.d>>

---------------------------------------------------------------------------
(* get_csv *)

\* AddCode with the slip of assigning the code list where the code appends
AddCodeOverwrite(groups, c) ==
    LET at == {k \in 1..Len(groups) : groups[k].key = c.codeSystemName}
    IN IF at = {}
       THEN Append(groups, [key |-> c.codeSystemName, codes |-> <<c.code>>])
       ELSE [k \in 1..Len(groups) |->
                IF k \in at
                THEN [groups[k] EXCEPT !.codes = <<c.code>>]
                ELSE groups[k]]

\* one pass of the loop over the concepts: the dict code_system_codes, as the
\* list of its (key, value) pairs in insertion order, after concept c
AddCode(groups, c) ==
    LET at == {k \in 1..Len(groups) : groups[k].key = c.codeSystemName}
    IN IF at = {}
       THEN Append(groups, [key |-> c.codeSystemName, codes |-> <<c.code>>])
       ELSE [k \in 1..Len(groups) |->
                IF k \in at
                THEN [groups[k] EXCEPT !.codes = Append(@, c.code)]
                ELSE groups[k]]

RECURSIVE CodeSystemCodes(_)
\* code_system_codes after the loop over all the concepts of one record
CodeSystemCodes(concepts) ==
    IF concepts = <<>> THEN <<>>
    ELSE AddCode(CodeSystemCodes(SubSeq(concepts, 1, Len(concepts) - 1)),
                 concepts[Len(concepts)])

\* purposes = value_set['ns0:Purpose'].split('),')
Purposes(value_set) == Split(value_set.Purpose, PurposeDelim)

\* whether building a row of this record raises IndexError (purposes[3])
RowRaises(value_set) == Len(Purposes(value_set)) < 4

\* Limitations with the index off by one
LimitationsThird(purposes) == purposes[3]

\* str(purposes[3])
Limitations(purposes) == purposes[4]

\* str(purposes[0:2])
Intention(purposes) == StrOfList(Slice02(purposes))

\* the row dict of one (record, code system) pair
Row(value_set, groups, k, t) ==
    [name |-> value_set.displayName,
     nameVSAC |-> <<"[VSAC] ">> \o value_set.displayName,
     oid |-> value_set.ID,
     codeSystem |-> groups[k].key,
     codes |-> Join(groups[k].codes, CodeDelim),
     limitations |-> Limitations(Purposes(value_set)),
     intention |-> Intention(Purposes(value_set)),
     provenance |->
        [Steward |-> value_set.Source,
         OID |-> value_set.ID,
         CodeSystems |-> Join([j \in 1..Len(groups) |-> groups[j].key], Comma),
         DefinitionType |-> value_set.Type,
         DefinitionVersion |-> value_set.version,
         Accessed |-> DropLast7(StrOfTime(t))]]

\* the rows one record appends
RowsOf(value_set, t) ==
    LET groups == CodeSystemCodes(value_set.Concept)
    IN [k \in 1..Len(groups) |-> Row(value_set, groups, k, t)]

RECURSIVE CsvRows(_, _)
\* rows after the loop over all the records
CsvRows(vs, t) ==
    IF vs = <<>> THEN <<>> ELSE RowsOf(Head(vs), t) \o CsvRows(Tail(vs), t)

\* a record raises when it has a row to build and no fourth purpose clause
CsvRaises(vs) ==
    \E i \in 1..Len(vs) : vs[i].Concept # <<>> /\ RowRaises(vs[i])

Quiet ==
    UNCHANGED <<d_list, heap, snapshots, artefact, format, use_cache_arg,
                use_cache, pickle_file, cache_at_start, calls, json_files,
                last_fetched, runs, responses>>

\* one call get_csv(value_sets): the loops, the DataFrame, the file; one
\* reading of the clock stands for the readings of the call
GetCsv ==
    /\ pc = "get_csv"
    /\ \E t \in Clock :
        /\ now' = t
        /\ IF CsvRaises(value_sets)
           THEN /\ pc' = "raised"
                /\ err' = "IndexError"
                /\ UNCHANGED <<df, table_file>>
           ELSE /\ pc' = "returned"
                /\ err' = ""
                /\ df' = CsvRows(value_sets, t)
                /\ table_file' = [exists |-> TRUE, dir |-> StrfTime(t, "."),
                                  rows |-> CsvRows(value_sets, t)]
    /\ UNCHANGED value_sets
    /\ Quiet

Idle ==
    /\ err = "" /\ now = <<>> /\ df = <<>> /\ table_file = NoFile
    /\ d_list = <<>> /\ heap = <<>> /\ snapshots = <<>>
    /\ artefact = "" /\ format = "" /\ use_cache_arg = FALSE /\ use_cache = FALSE
    /\ pickle_file = NoFile /\ cache_at_start = FALSE /\ calls = <<>>
    /\ json_files = <<>> /\ last_fetched = <<>> /\ runs = 0 /\ responses = <<>>

\* get_csv is called with any list of records
InitCsv ==
    /\ \E n \in 0..MaxRecords :
         \E p \in [1..n -> CsvPurposes], c \in ConceptListsOf(n, MaxConcepts) :
            value_sets = [i \in 1..n |-> ValueSet(i, p[i], c[i])]
    /\ pc = "get_csv"
    /\ Idle

NextCsv == GetCsv

SpecCsv == InitCsv /\ [][NextCsv]_vars

---------------------------------------------------------------------------
(* vsac_to_vsac *)

\* the four labels with the text of their clauses
Clauses ==
    [l \in {LabelCF, LabelIC, LabelDES, LabelEC} |->
        CASE l = LabelCF -> <<l, "asthma">>
          [] l = LabelIC -> <<l, "snomed">>
          [] l = LabelDES -> <<l, "condition">>
          [] l = LabelEC -> <<l, "none">>]

\* the orders in which a purpose text may list the four clauses
ClauseOrders ==
    {o \in [1..4 -> DOMAIN Clauses] : \A a, b \in 1..4 : o[a] = o[b] => a = b}

\* a separator an author may write between clauses instead of '),'
SemicolonSep == <<")", ";">>

\* the purpose text listing the four clauses in order o, separated by sep
PurposeOf(o, sep) == Join([a \in 1..4 |-> Clauses[o[a]]], sep) \o <<")">>

\* whether clause.split(label)[1] raises IndexError
NoSecondPiece(clause, label) == Len(Split(clause, <<label>>)) < 2

\* clause.split(label)[1]
SecondPiece(clause, label) == Split(clause, <<label>>)[2]

\* the clause each Intention sub-field is read from: purposes[0]
IntentionClause(purposes, n) == purposes[1]

\* whether building the dict raises IndexError
OmopRaises(v) ==
    \E n \in 1..4 :
        NoSecondPiece(IntentionClause(Purposes(v), n),
                      <<LabelCF, LabelIC, LabelDES, LabelEC>>[n])

\* the dict vsac_to_vsac returns
OmopDict(v, t) ==
    LET purposes == Purposes(v)
    IN [ConceptSetName |-> v.displayName,
        CreatedAt |-> <<"vsacToOmopConversion:">> \o StrfTime(t, "/")
                      \o <<"; vsacRevision:">> \o v.RevisionDate,
        CreatedBy |-> v.Source,
        Intention |->
           [ClinicalFocus |-> SecondPiece(IntentionClause(purposes, 1), LabelCF),
            InclusionCriteria |-> SecondPiece(IntentionClause(purposes, 2), LabelIC),
            DataElementScope |-> SecondPiece(IntentionClause(purposes, 3), LabelDES),
            ExclusionCriteria |-> SecondPiece(IntentionClause(purposes, 4), LabelEC)],
        Limitations |-> [ExclusionCriteria |-> <<>>, VSACNote |-> "None"],
        Provenance |-> [VSACSteward |-> <<>>, OID |-> <<>>, CodeSystems |-> <<>>,
                        DefinitionType |-> <<>>, DefinitionVersion |-> <<>>]]

QuietOmop ==
    UNCHANGED <<df, table_file, heap, snapshots, artefact, format, use_cache_arg,
                use_cache, pickle_file, cache_at_start, calls, json_files,
                last_fetched, runs, responses>>

\* one call vsac_to_vsac(value_sets[0])
VsacToVsac ==
    /\ pc = "vsac_to_vsac"
    /\ \E t \in Clock :
        /\ now' = t
        /\ IF OmopRaises(value_sets[1])
           THEN pc' = "raised" /\ err' = "IndexError" /\ UNCHANGED d_list
           ELSE pc' = "returned" /\ err' = ""
                /\ d_list' = <<OmopDict(value_sets[1], t)>>
    /\ UNCHANGED value_sets
    /\ QuietOmop

InitOmop ==
    /\ \E i \in 1..MaxRecords, o \in ClauseOrders, sep \in {PurposeDelim, SemicolonSep} :
          value_sets = <<ValueSet(i, PurposeOf(o, sep), <<>>)>>
    /\ pc = "vsac_to_vsac"
    /\ Idle

NextOmop == VsacToVsac

SpecOmop == InitOmop /\ [][NextOmop]_vars

---------------------------------------------------------------------------
(* vsac_to_fhir *)

\* the replacement field of str.format
Field == "{}"

\* number of replacement fields in s
CountFields(s) == Cardinality({k \in 1..Len(s) : s[k] = Field})

RECURSIVE Format(_, _)
\* s.format(arg), for an s with at most one replacement field
Format(s, arg) ==
    IF s = <<>> THEN <<>>
    ELSE (IF Head(s) = Field THEN arg ELSE <<Head(s)>>) \o Format(Tail(s), arg)

\* the decimal literals int() accepts, with their values
IntLiterals == [l \in {"7", "8"} |-> IF l = "7" THEN 7 ELSE 8]

\* str(n) of those values
StrOfInt(n) == IF n = 7 THEN "7" ELSE "8"

\* the top-level dict of the template: 'text' and 'compose' hold references
\* to the nested objects, which live in the heap
FHIR_JSON_TEMPLATE ==
    [id |-> 0, url |-> <<"http://n3cValueSets.org/fhir/ValueSet/", Field>>,
     name |-> <<>>, title |-> <<>>, status |-> <<>>, description |-> <<>>,
     text |-> "ref:text", compose |-> "ref:compose"]

\* the nested objects of the template as the module defines them:
\* template['text'] and template['compose']['include'][0]
TemplateHeap ==
    [text |-> [status |-> <<"generated">>, div |-> <<"<div>", Field, "</div>">>],
     include0 |-> [system |-> <<>>, version |-> <<>>, concept |-> <<>>]]

\* a record of the flat shape vsac_to_fhir reads: each field a one-element list
FhirRecord(id, name, description, system) ==
    [id |-> id, name |-> name, description |-> description,
     status |-> <<"active">>, codeSystem |-> system,
     codeSystemVersion |-> <<"2021-03">>]

FhirRecords ==
    { FhirRecord(id, <<"Asthma">>, de, sy) :
        id \in {"7", "8", "2.16.1"},
        de \in {<<"asthma">>, <<"see", Field>>},
        sy \in {<<"SNOMEDCT">>, <<"ICD10CM">>} }

\* d = copy(FHIR_JSON_TEMPLATE): a new top-level dict, the nested objects shared
ShallowCopy(template) == template

\* the exception the call raises on record v with the heap as it is, or ""
FhirError(v, h) ==
    IF v.id \notin DOMAIN IntLiterals THEN "ValueError"
    ELSE IF CountFields(h.text.div) > 1 THEN "IndexError"
    ELSE ""

\* the top-level dict the call returns
FhirDict(v) ==
    [ShallowCopy(FHIR_JSON_TEMPLATE) EXCEPT
        !.id = IntLiterals[v.id],
        !.url = Format(@, <<StrOfInt(IntLiterals[v.id])>>),
        !.name = v.name,
        !.title = v.name,
        !.status = v.status,
        !.description = v.description]

\* the nested objects after the call: d['text']['div'] and
\* d['compose']['include'][0][...] are assigned through the shared references
FhirHeap(v, h) ==
    [h EXCEPT !.text.div = Format(@, v.description),
              !.include0.system = v.codeSystem,
              !.include0.version = v.codeSystemVersion,
              !.include0.concept = <<>>]

\* the value of artifact d with its references followed: what json.dump writes
Deref(d, h) ==
    [d EXCEPT !.text = h.text, !.compose = [include |-> <<h.include0>>]]

QuietFhir ==
    UNCHANGED <<now, df, table_file, artefact, format, use_cache_arg, use_cache,
                pickle_file, cache_at_start, calls, json_files, last_fetched,
                runs, responses>>

\* one call vsac_to_fhir(v); value_sets collects the records converted
VsacToFhir ==
    /\ pc = "vsac_to_fhir"
    /\ Len(value_sets) < MaxCalls
    /\ \E v \in FhirRecords :
        /\ value_sets' = Append(value_sets, v)
        /\ IF FhirError(v, heap) # ""
           THEN /\ pc' = "raised"
                /\ err' = FhirError(v, heap)
                /\ UNCHANGED <<d_list, heap, snapshots>>
           ELSE /\ UNCHANGED <<pc, err>>
                /\ d_list' = Append(d_list, FhirDict(v))
                /\ heap' = FhirHeap(v, heap)
                /\ snapshots' = Append(snapshots, Deref(FhirDict(v), FhirHeap(v, heap)))
    /\ QuietFhir

InitFhir ==
    /\ value_sets = <<>>
    /\ pc = "vsac_to_fhir"
    /\ err = "" /\ now = <<>> /\ df = <<>> /\ table_file = NoFile
    /\ d_list = <<>> /\ heap = TemplateHeap /\ snapshots = <<>>
    /\ artefact = "" /\ format = "" /\ use_cache_arg = FALSE /\ use_cache = FALSE
    /\ pickle_file = NoFile /\ cache_at_start = FALSE /\ calls = <<>>
    /\ json_files = <<>> /\ last_fetched = <<>> /\ runs = 0 /\ responses = <<>>

NextFhir == VsacToFhir

SpecFhir == InitFhir /\ [][NextFhir]_vars

---------------------------------------------------------------------------
(* get_service_ticket *)

\* what the ticket endpoint may answer
Statuses == {200, 401, 500}
Bodies == {<<>>, <<"ST-134-cas">>, <<"<html>", "Unauthorized", "</html>">>}
Tgts == {<<"TGT-1-cas">>, <<"TGT-2-cas">>}

\* the url of the request
TicketUrl(tgt) == Format(<<"https://utslogin.nlm.nih.gov/cas/v1/tickets/", Field>>, tgt)

\* service_ticket = response2.text
ServiceTicket(status, body) == body

QuietTicket ==
    UNCHANGED <<value_sets, now, df, table_file, d_list, heap, snapshots, artefact,
                format, use_cache_arg, use_cache, pickle_file, cache_at_start,
                calls, json_files, last_fetched, runs>>

\* one call get_service_ticket(tgt): the POST raises (no connection), or the
\* endpoint answers and the function returns the body of the answer
GetServiceTicket ==
    /\ pc = "get_service_ticket"
    /\ Len(responses) < MaxCalls
    /\ \E tgt \in Tgts :
        \/ /\ pc' = "raised"
           /\ err' = "ConnectionError"
           /\ responses' = Append(responses,
                 [url |-> TicketUrl(tgt), answered |-> FALSE, status |-> 0,
                  body |-> <<>>, returned |-> FALSE, ticket |-> <<>>])
        \/ \E st \in Statuses, body \in Bodies :
           /\ UNCHANGED <<pc, err>>
           /\ responses' = Append(responses,
                 [url |-> TicketUrl(tgt), answered |-> TRUE, status |-> st,
                  body |-> body, returned |-> TRUE,
                  ticket |-> ServiceTicket(st, body)])
    /\ QuietTicket

InitTicket ==
    /\ value_sets = <<>>
    /\ pc = "get_service_ticket"
    /\ Idle

NextTicket == GetServiceTicket

SpecTicket == InitTicket /\ [][NextTicket]_vars

---------------------------------------------------------------------------
(* The pickle file *)

\* the keys of a record, in the order of the dict
RecordKeys ==
    <<"displayName", "ID", "Purpose", "Concept", "Source", "Type", "version",
      "RevisionDate", "id", "name", "description", "status", "codeSystem",
      "codeSystemVersion">>

RECURSIVE Concat(_)
Concat(seqs) == IF seqs = <<>> THEN <<>> ELSE Head(seqs) \o Concat(Tail(seqs))

\* the opcodes that rebuild one dict: its (key, value) pairs between a MARK
\* and SETITEMS; the opcodes of one value are taken as one, VALUE
PickleDict(v) ==
    <<[op |-> "EMPTY_DICT"], [op |-> "MARK"]>>
    \o Concat([k \in 1..Len(RecordKeys) |->
                <<[op |-> "BINUNICODE", arg |-> RecordKeys[k]],
                  [op |-> "VALUE", arg |-> v[RecordKeys[k]]]>>])
    \o <<[op |-> "SETITEMS"]>>

\* pickle.dump(value_sets, handle): the opcode stream written to the file
Dump(vs) ==
    <<[op |-> "PROTO"], [op |-> "EMPTY_LIST"]>>
    \o (IF vs = <<>> THEN <<>>
        ELSE <<[op |-> "MARK"]>> \o Concat([i \in 1..Len(vs) |-> PickleDict(vs[i])])
             \o <<[op |-> "APPENDS"]>>)
    \o <<[op |-> "STOP"]>>

\* the position of the topmost MARK on the stack
TopMark(stack) ==
    CHOOSE m \in 1..Len(stack) :
        stack[m].mark /\ \A k \in (m + 1)..Len(stack) : ~stack[k].mark

\* SETITEMS: the pairs above the topmost MARK go into the dict below it
SetItems(stack) ==
    LET m == TopMark(stack)
        n == (Len(stack) - m) \div 2
        old == stack[m - 1].val
        keys == {stack[m + 2 * i - 1].val : i \in 1..n}
        new == [k \in (DOMAIN old) \cup keys |->
                  IF k \in keys
                  THEN stack[m + 2 * (CHOOSE i \in 1..n :
                                        /\ stack[m + 2 * i - 1].val = k
                                        /\ \A j \in (i + 1)..n :
                                              stack[m + 2 * j - 1].val # k)].val
                  ELSE old[k]]
    IN Append(SubSeq(stack, 1, m - 2), [mark |-> FALSE, val |-> new])

\* APPENDS: the objects above the topmost MARK are appended to the list below it
Appends(stack) ==
    LET m == TopMark(stack)
        items == [k \in 1..(Len(stack) - m) |-> stack[m + k].val]
    IN Append(SubSeq(stack, 1, m - 2),
              [mark |-> FALSE, val |-> stack[m - 1].val \o items])

\* the stack after one opcode
Step(o, stack) ==
    CASE o.op = "PROTO" -> stack
      [] o.op = "EMPTY_LIST" -> Append(stack, [mark |-> FALSE, val |-> <<>>])
      [] o.op = "EMPTY_DICT" -> Append(stack, [mark |-> FALSE, val |-> <<>>])
      [] o.op = "MARK" -> Append(stack, [mark |-> TRUE, val |-> <<>>])
      [] o.op = "BINUNICODE" -> Append(stack, [mark |-> FALSE, val |-> o.arg])
      [] o.op = "VALUE" -> Append(stack, [mark |-> FALSE, val |-> o.arg])
      [] o.op = "SETITEMS" -> SetItems(stack)
      [] o.op = "APPENDS" -> Appends(stack)
      [] o.op = "STOP" -> stack

RECURSIVE Exec(_, _, _, _)
\* the stack after the opcodes ops[lo..hi], in order
Exec(ops, lo, hi, stack) ==
    IF lo > hi THEN stack
    ELSE IF lo = hi THEN Step(ops[lo], stack)
    ELSE LET mid == (lo + hi) \div 2
             half == Exec(ops, lo, mid, stack)
         \* (the test makes the first half run before the second starts)
         IN IF Len(half) >= 0 THEN Exec(ops, mid + 1, hi, half) ELSE half

\* the unpickling machine: runs the opcodes over an empty stack; at STOP, the
\* last opcode, the object on top of the stack is the result
Unpickle(ops) ==
    LET stack == Exec(ops, 1, Len(ops), <<>>)
    IN stack[Len(stack)].val

\* pickle.load(open(pickle_file, 'rb'))
Load(file) == Unpickle(file.content)

---------------------------------------------------------------------------
(* run *)

\* a purpose text whose clauses an author separated by ');': one clause for
\* split('),'), holding the four labels
PurposeUndelimited == PurposeOf(<<LabelCF, LabelIC, LabelDES, LabelEC>>, SemicolonSep)

\* a record of the lists run works on: the keys get_csv and vsac_to_vsac read
\* and the keys vsac_to_fhir reads
RunRecord(i, purpose, concepts, id) ==
    ValueSet(i, purpose, concepts) @@ FhirRecord(id, <<Names[i]>>, <<"asthma">>, <<"SNOMEDCT">>)

\* the record lists the value-set service may return
RunRecordLists ==
    UNION { { [i \in 1..n |->
                RunRecord(i, p[i], <<[code |-> <<"123">>, codeSystemName |-> <<"SNOMEDCT">>]>>,
                          d[i])]
              : p \in [1..n -> {PurposeFull, PurposeUndelimited}],
                d \in [1..n -> {"7", "2.16.1"}] }
            : n \in 0..MaxRecords }

NoCalls == [sheet |-> 0, tgt |-> 0, fetch |-> 0, dump |-> 0]

\* the exceptions by the step that raises them
FetchErrors == {"SheetError", "AuthError", "FetchError"}
ConvertErrors == {"IndexError", "ValueError"}

\* a new process calls run(artefact, format, use_cache); the pickle file is
\* what earlier runs left
StartRun ==
    /\ pc \in {"idle", "done", "error"}
    /\ runs < MaxRuns
    /\ runs' = runs + 1
    /\ artefact' \in {"csv_fields", "json", "tsv_code"}
    /\ format' \in {"fhir", "omop"}
    /\ use_cache_arg' \in BOOLEAN
    /\ use_cache' = use_cache_arg'
    /\ cache_at_start' = pickle_file.exists
    /\ value_sets' = <<>>
    /\ pc' = "cache_check"
    /\ err' = "" /\ now' = <<>> /\ df' = <<>> /\ table_file' = NoFile
    /\ d_list' = <<>> /\ heap' = TemplateHeap /\ json_files' = <<>>
    /\ calls' = NoCalls
    /\ UNCHANGED <<pickle_file, last_fetched, snapshots, responses>>

\* CacheHit with the cache taken as missed whatever the file
CacheHitNever(use, file) == FALSE

\* pickle_file.is_file() and use_cache
CacheHit(use, file) == file.exists /\ use

\* if use_cache: load the pickle file if it is there, else use_cache = False
CacheCheck ==
    /\ pc = "cache_check"
    /\ IF use_cache
       THEN IF CacheHit(use_cache, pickle_file)
            THEN value_sets' = Load(pickle_file) /\ UNCHANGED use_cache
            ELSE use_cache' = FALSE /\ UNCHANGED value_sets
       ELSE UNCHANGED <<value_sets, use_cache>>
    /\ pc' = IF use_cache' THEN "convert" ELSE "fetch"
    /\ UNCHANGED <<err, now, df, table_file, d_list, heap, snapshots, artefact,
                   format, use_cache_arg, pickle_file, cache_at_start, calls,
                   json_files, last_fetched, runs, responses>>

\* Persist with the list dumped as it was before the fetch assigned it
PersistBeforeAssign(vs) == [exists |-> TRUE, content |-> Dump(<<>>)]

\* the file the fetch step leaves: the record list, pickled
Persist(vs) == [exists |-> TRUE, content |-> Dump(vs)]

\* if not use_cache: read the OIDs from the sheet, get the ticket-granting
\* ticket, get the value sets in one call, pickle them.  Each collaborator may
\* raise, which ends the run.
Fetch ==
    /\ pc = "fetch"
    /\ \/ /\ calls' = [calls EXCEPT !.sheet = @ + 1]
          /\ pc' = "error" /\ err' = "SheetError"
          /\ UNCHANGED <<value_sets, pickle_file, last_fetched>>
       \/ /\ calls' = [calls EXCEPT !.sheet = @ + 1, !.tgt = @ + 1]
          /\ pc' = "error" /\ err' = "AuthError"
          /\ UNCHANGED <<value_sets, pickle_file, last_fetched>>
       \/ /\ calls' = [calls EXCEPT !.sheet = @ + 1, !.tgt = @ + 1, !.fetch = @ + 1]
          /\ pc' = "error" /\ err' = "FetchError"
          /\ UNCHANGED <<value_sets, pickle_file, last_fetched>>
       \/ \E vs \in RunRecordLists :
          /\ calls' = [calls EXCEPT !.sheet = @ + 1, !.tgt = @ + 1,
                                    !.fetch = @ + 1, !.dump = @ + 1]
          /\ value_sets' = vs
          /\ pickle_file' = Persist(vs)
          /\ last_fetched' = vs
          /\ pc' = "convert"
          /\ UNCHANGED err
    /\ UNCHANGED <<now, df, table_file, d_list, heap, snapshots, artefact, format,
                   use_cache_arg, use_cache, cache_at_start, json_files, runs,
                   responses>>

\* artefact == 'tsv_code': get_csv(value_sets, ...)
RunTsv ==
    /\ pc = "convert"
    /\ artefact = "tsv_code"
    /\ \E t \in Clock :
        /\ now' = t
        /\ IF CsvRaises(value_sets)
           THEN /\ pc' = "error"
                /\ err' = "IndexError"
                /\ UNCHANGED <<df, table_file>>
           ELSE /\ pc' = "done"
                /\ UNCHANGED err
                /\ df' = CsvRows(value_sets, t)
                /\ table_file' = [exists |-> TRUE, dir |-> StrfTime(t, "."),
                                  rows |-> CsvRows(value_sets, t)]
    /\ UNCHANGED <<value_sets, d_list, heap, snapshots, artefact, format,
                   use_cache_arg, use_cache, pickle_file, cache_at_start, calls,
                   json_files, last_fetched, runs, responses>>

\* artefact == 'csv_fields': pass
RunCsvFields ==
    /\ pc = "convert"
    /\ artefact = "csv_fields"
    /\ pc' = "done"
    /\ UNCHANGED <<value_sets, err, now, df, table_file, d_list, heap, snapshots,
                   artefact, format, use_cache_arg, use_cache, pickle_file,
                   cache_at_start, calls, json_files, last_fetched, runs, responses>>

\* PcAfterConvert with the file of a record written as soon as it is converted
PcAfterConvertEager(converted, total) == "write"

\* where run is after one more pass of the loop 'for value_set in value_sets':
\* the loop 'for d in d_list' starts when the first loop has ended
PcAfterConvert(converted, total) ==
    IF converted < total THEN "convert" ELSE "write"

\* where run is after one more pass of the loop 'for d in d_list'
PcAfterWrite(written, total) ==
    IF written < total THEN "write" ELSE "done"

\* artefact == 'json', one pass of the first loop: convert the next record
ConvertOne ==
    /\ pc = "convert"
    /\ artefact = "json"
    /\ Len(d_list) < Len(value_sets)
    /\ LET v == value_sets[Len(d_list) + 1]
       IN \/ /\ format = "fhir"
             /\ UNCHANGED now
             /\ IF FhirError(v, heap) # ""
                THEN /\ pc' = "error"
                     /\ err' = FhirError(v, heap)
                     /\ UNCHANGED <<d_list, heap>>
                ELSE /\ d_list' = Append(d_list, FhirDict(v))
                     /\ heap' = FhirHeap(v, heap)
                     /\ pc' = PcAfterConvert(Len(d_list) + 1, Len(value_sets))
                     /\ UNCHANGED err
          \/ /\ format = "omop"
             /\ UNCHANGED heap
             /\ \E t \in Clock :
                 /\ now' = t
                 /\ IF OmopRaises(v)
                    THEN /\ pc' = "error"
                         /\ err' = "IndexError"
                         /\ UNCHANGED d_list
                    ELSE /\ d_list' = Append(d_list, OmopDict(v, t))
                         /\ pc' = PcAfterConvert(Len(d_list) + 1, Len(value_sets))
                         /\ UNCHANGED err
    /\ UNCHANGED <<value_sets, df, table_file, snapshots, artefact, format,
                   use_cache_arg, use_cache, pickle_file, cache_at_start, calls,
                   json_files, last_fetched, runs, responses>>

\* artefact == 'json' and no record at all: both loops end at once
ConvertNone ==
    /\ pc = "convert"
    /\ artefact = "json"
    /\ value_sets = <<>>
    /\ pc' = "done"
    /\ UNCHANGED <<value_sets, err, now, df, table_file, d_list, heap, snapshots,
                   artefact, format, use_cache_arg, use_cache, pickle_file,
                   cache_at_start, calls, json_files, last_fetched, runs, responses>>

\* artefact == 'json', one pass of the second loop: valueset_name = d['name']
\* (KeyError when d has no such key), then json.dump into <name>.json
WriteOne ==
    /\ pc = "write"
    /\ Len(json_files) < Len(d_list)
    /\ LET d == d_list[Len(json_files) + 1]
       IN IF "name" \notin DOMAIN d
          THEN /\ pc' = "error"
               /\ err' = "KeyError"
               /\ UNCHANGED json_files
          ELSE /\ json_files' = Append(json_files,
                     [path |-> d.name \o <<".json">>, content |-> Deref(d, heap)])
               /\ pc' = PcAfterWrite(Len(json_files) + 1, Len(d_list))
               /\ UNCHANGED err
    /\ UNCHANGED <<value_sets, now, df, table_file, d_list, heap, snapshots,
                   artefact, format, use_cache_arg, use_cache, pickle_file,
                   cache_at_start, calls, last_fetched, runs, responses>>

InitRun ==
    /\ value_sets = <<>>
    /\ pc = "idle"
    /\ err = "" /\ now = <<>> /\ df = <<>> /\ table_file = NoFile
    /\ d_list = <<>> /\ heap = TemplateHeap /\ snapshots = <<>>
    /\ artefact = "" /\ format = "" /\ use_cache_arg = FALSE /\ use_cache = FALSE
    /\ pickle_file = NoFile /\ cache_at_start = FALSE /\ calls = NoCalls
    /\ json_files = <<>> /\ last_fetched = <<>> /\ runs = 0 /\ responses = <<>>

NextRun ==
    \/ StartRun
    \/ CacheCheck
    \/ Fetch
    \/ RunTsv
    \/ RunCsvFields
    \/ ConvertOne
    \/ ConvertNone
    \/ WriteOne

SpecRun == InitRun /\ [][NextRun]_vars

---------------------------------------------------------------------------
(* Properties of get_csv, under SpecCsv *)

\* the row numbers of df that carry the OID of record v
RowsWithOid(v) == {k \in 1..Len(df) : df[k].oid = v.ID}

\* the code-system names among the concepts of record v
SystemsOf(v) == {v.Concept[j].codeSystemName : j \in 1..Len(v.Concept)}

\* the codes of the concepts of v in code system cs, in their original order
CodesIn(v, cs) ==
    LET sel == SelectSeq(v.Concept, LAMBDA c : c.codeSystemName = cs)
    IN [j \in 1..Len(sel) |-> sel[j].code]

\* C1: when get_csv returns, every row belongs to a record of the input;
\* each record has exactly one row per distinct code-system name among its
\* concepts and no other row; and the 'codes' field of a row, cut at the code
\* delimiter, is exactly the list of the codes of that record's concepts in
\* the row's code system, in their original order.
C1_OneRowPerCodeSystem ==
    pc = "returned" =>
        /\ \A k \in 1..Len(df) :
              \E i \in 1..Len(value_sets) : df[k].oid = value_sets[i].ID
        /\ \A i \in 1..Len(value_sets) :
              LET v == value_sets[i]
              IN /\ \A cs \in SystemsOf(v) :
                       Cardinality({k \in RowsWithOid(v) : df[k].codeSystem = cs}) = 1
                 /\ Cardinality(RowsWithOid(v)) = Cardinality(SystemsOf(v))
                 /\ \A k \in RowsWithOid(v) :
                       /\ df[k].codeSystem \in SystemsOf(v)
                       /\ Split(df[k].codes, CodeDelim) = CodesIn(v, df[k].codeSystem)
                       /\ df[k].codes = Join(CodesIn(v, df[k].codeSystem), CodeDelim)

\* get_csv has returned for two records, one of them with concepts of two
\* code systems that alternate (three concepts, two rows)
C1_Witness ==
    /\ pc = "returned"
    /\ Len(value_sets) = 2
    /\ \E i \in 1..2 :
          /\ Len(value_sets[i].Concept) = 3
          /\ value_sets[i].Concept[1].codeSystemName = value_sets[i].Concept[3].codeSystemName
          /\ value_sets[i].Concept[1].codeSystemName # value_sets[i].Concept[2].codeSystemName
          /\ Cardinality(RowsWithOid(value_sets[i])) = 2
    /\ Len(df) >= 3

\* the clauses of the purpose text of record v
ClausesOf(v) == Split(v.Purpose, PurposeDelim)

\* the part of C9 about the rows: a record with at least four clauses has, in
\* every one of its rows, 'limitations' equal to the fourth clause and
\* 'intention' the str() of the list of the first two clauses
C9_RowsCarryClauses ==
    pc = "returned" =>
        \A i \in 1..Len(value_sets) :
            LET v == value_sets[i]
            IN Len(ClausesOf(v)) >= 4 =>
                \A k \in RowsWithOid(v) :
                    /\ df[k].limitations = ClausesOf(v)[4]
                    /\ df[k].intention =
                          <<"[", "'">> \o ClausesOf(v)[1] \o <<"'", ", ", "'">>
                          \o ClausesOf(v)[2] \o <<"'", "]">>

\* get_csv ended in IndexError, returned no table and wrote none
CsvFailed ==
    pc = "raised" /\ err = "IndexError" /\ df = <<>> /\ table_file = NoFile

\* C9 as stated: rows carry the clauses, and ANY record with fewer than four
\* clauses makes get_csv fail with an index error, no table returned or written
C9_AsStated ==
    /\ C9_RowsCarryClauses
    /\ (pc # "get_csv" /\ \E i \in 1..Len(value_sets) : Len(ClausesOf(value_sets[i])) < 4)
          => CsvFailed

\* C9 amended: rows carry the clauses, and get_csv fails with an index error
\* (no table returned or written) exactly when some record has fewer than four
\* clauses AND at least one concept; a record with fewer than four clauses
\* and an empty concept list yields no row and raises nothing
C9_Amended ==
    /\ C9_RowsCarryClauses
    /\ pc # "get_csv" =>
          IF \E i \in 1..Len(value_sets) :
                /\ Len(ClausesOf(value_sets[i])) < 4
                /\ value_sets[i].Concept # <<>>
          THEN CsvFailed
          ELSE pc = "returned" /\ err = "" /\ table_file.exists

\* get_csv failed on the second record, after a first record of four clauses
\* whose rows had already been built
C9_Witness ==
    /\ CsvFailed
    /\ Len(value_sets) = 2
    /\ Len(ClausesOf(value_sets[1])) >= 4 /\ value_sets[1].Concept # <<>>
    /\ Len(ClausesOf(value_sets[2])) < 4 /\ value_sets[2].Concept # <<>>

---------------------------------------------------------------------------
(* Properties of vsac_to_vsac, under SpecOmop *)

\* the text that follows label l in purpose text p, up to the next '),'
TextAfterLabel(p, l) == Split(Split(p, <<l>>)[2], PurposeDelim)[1]

\* the purpose text holds the four labelled clauses separated by '),'
FourDelimitedClauses(p) ==
    /\ Len(Split(p, PurposeDelim)) = 4
    /\ \A l \in DOMAIN Clauses :
          \E a \in 1..4 : Split(p, PurposeDelim)[a][1] = l

\* C2: given a purpose text with the four labelled clauses separated by '),',
\* vsac_to_vsac returns without error and each Intention sub-field is the text
\* after that field's own label, up to the next delimiter.
C2_ExtractsFourClauses ==
    (pc # "vsac_to_vsac" /\ FourDelimitedClauses(value_sets[1].Purpose)) =>
        /\ pc = "returned" /\ err = ""
        /\ LET p == value_sets[1].Purpose
               x == d_list[1].Intention
           IN /\ x.ClinicalFocus = TextAfterLabel(p, LabelCF)
              /\ x.InclusionCriteria = TextAfterLabel(p, LabelIC)
              /\ x.DataElementScope = TextAfterLabel(p, LabelDES)
              /\ x.ExclusionCriteria = TextAfterLabel(p, LabelEC)

---------------------------------------------------------------------------
(* Properties of vsac_to_fhir, under SpecFhir *)

\* the artifact of record v converted against the template as the module
\* defines it: what a conversion that depends on the record alone returns
AloneFhir(v) == Deref(FhirDict(v), FhirHeap(v, TemplateHeap))

\* C3: conversion carries no cross-record state: the shared template is
\* unchanged, each returned artifact depends on its record only, and an
\* artifact already returned is not altered by a later conversion.
C3_NoCrossRecordState ==
    /\ heap = TemplateHeap
    /\ \A i \in 1..Len(d_list) :
          /\ snapshots[i] = AloneFhir(value_sets[i])
          /\ Deref(d_list[i], heap) = snapshots[i]

\* C4: two conversions of the same record return outputs equal in every field.
C4_Deterministic ==
    \A i, j \in 1..Len(snapshots) :
        value_sets[i] = value_sets[j] => snapshots[i] = snapshots[j]

---------------------------------------------------------------------------
(* Properties of get_service_ticket, under SpecTicket *)

\* C8: get_service_ticket fails when the endpoint answers with a non-2xx
\* status or an empty body; it never returns an empty string or an error
\* page's text as a ticket.
C8_FailsOnBadAnswer ==
    \A k \in 1..Len(responses) :
        LET r == responses[k]
        IN (r.answered /\ (r.status \notin 200..299 \/ r.body = <<>>)) => ~r.returned

---------------------------------------------------------------------------
(* Properties of run, under SpecRun *)

\* the run was started with caching enabled and the pickle file present
StartedOnCache == use_cache_arg /\ cache_at_start

\* the run is past the cache check
PastCacheCheck == pc \notin {"idle", "cache_check"}

\* C5: in a run with caching enabled and the cache file present, the records
\* are loaded from the file and the fetch step is skipped: the sheet is not
\* read, no grant is requested, no value-set call is made and the cache file
\* is not rewritten.
C5_CacheHitSkipsFetch ==
    (StartedOnCache /\ PastCacheCheck) =>
        /\ pc # "fetch"
        /\ calls = NoCalls
        /\ use_cache
        /\ value_sets = Load(pickle_file)

\* a second run, started on the cache a first run left, has finished with
\* the records loaded from it
C5_Witness ==
    /\ StartedOnCache
    /\ runs = 2
    /\ pc = "done"
    /\ Len(value_sets) >= 1

\* the run is past a fetch step that did not raise
PastFetch == pc \in {"convert", "write", "done"} \/ (pc = "error" /\ err \notin FetchErrors)

\* C6: when the cache is missed or disabled the fetch step runs (each
\* collaborator called once) and its record list is written to the cache
\* file, which unpickles to a list equal to the one fetched; and a run started
\* on the cache loads a list equal to the one last fetched, with no call to
\* the network.
C6_FetchPersistsRoundTrip ==
    /\ (~StartedOnCache /\ PastCacheCheck) =>
          /\ pc = "fetch" \/ calls.sheet = 1
          /\ PastFetch =>
                /\ calls = [sheet |-> 1, tgt |-> 1, fetch |-> 1, dump |-> 1]
                /\ pickle_file.exists
                /\ Load(pickle_file) = value_sets
                /\ last_fetched = value_sets
    /\ (StartedOnCache /\ PastCacheCheck) =>
          /\ value_sets = last_fetched
          /\ calls.sheet = 0 /\ calls.tgt = 0 /\ calls.fetch = 0

\* a run with caching disabled, with a cache file of an earlier run present,
\* has fetched two records and replaced the file
C6_Witness ==
    /\ ~use_cache_arg /\ cache_at_start
    /\ pc = "convert"
    /\ Len(value_sets) = 2
    /\ calls.dump = 1

\* C7: with the JSON artefact, for either format, once every record is
\* converted the run ends without error and every record's artifact is in a
\* file of its own named <display name>.json.
C7_JsonFilePerRecord ==
    (/\ artefact = "json"
     /\ pc \in {"done", "error"}
     /\ err \notin FetchErrors
     /\ Len(d_list) = Len(value_sets)) =>
        /\ pc = "done" /\ err = ""
        /\ Len(json_files) = Len(value_sets)
        /\ \A i \in 1..Len(value_sets) :
              json_files[i].path = value_sets[i].displayName \o <<".json">>

\* C10: a failure while converting a record ends the run in error with no
\* later record converted and no output file written by the run (no JSON
\* file, no table file); a JSON file is written only when every record has
\* been converted.
C10_ConversionFailureLeavesNoOutput ==
    /\ (pc = "error" /\ err \in ConvertErrors) =>
          /\ json_files = <<>>
          /\ table_file = NoFile /\ df = <<>>
          /\ Len(d_list) < Len(value_sets)
          /\ artefact = "json" =>
                LET v == value_sets[Len(d_list) + 1]
                IN IF format = "fhir" THEN v.id \notin DOMAIN IntLiterals
                   ELSE Len(Split(ClausesOf(v)[1], <<LabelIC>>)) < 2
    /\ json_files # <<>> => Len(d_list) = Len(value_sets)

\* the JSON run converted its first record and failed on the second
C10_Witness ==
    /\ pc = "error" /\ err \in ConvertErrors
    /\ artefact = "json"
    /\ Len(d_list) = 1
    /\ Len(value_sets) = 2

=============================================================================
